---- MODULE Spec2Model ----
(***************************************************************************)
(* Offline-AI-Chat: the chat page (src/page.tsx, component ChatInterface)  *)
(* and the chat route handler (src/route.ts, POST), as one state machine.  *)
(*                                                                         *)
(* A text is a finite sequence of symbols.  Typed text is built from the   *)
(* characters of Chars; a string literal of the source (a suggested        *)
(* prompt, an error payload, the placeholder, the fallback advisory) is a  *)
(* text of one opaque non-whitespace symbol carrying the literal's name.   *)
(* An optional value (a JavaScript value that may be undefined) is the     *)
(* empty sequence when absent and a one-element sequence when present.     *)
(* The id and timestamp fields of a Message are read by no handler and     *)
(* are left out of the message records.                                    *)
(***************************************************************************)
EXTENDS Naturals, Sequences, FiniteSets, TLC

VARIABLES
    messages,       \* useState<Message[]>([])            page.tsx:51
    input,          \* useState("")                       page.tsx:52
    isLoading,      \* useState(false)                    page.tsx:53
    isConnected,    \* useState(false)                    page.tsx:54
    models,         \* useState<Model[]>([])              page.tsx:55
    selectedModel,  \* useState("llama3:latest")          page.tsx:56
    pending,        \* fetch("/api/chat") calls whose promise has not settled
    probes,         \* the two mount-time probes: "pending" or "done"
    last            \* the most recent event and what it was given / returned

vars == <<messages, input, isLoading, isConnected, models, selectedModel,
          pending, probes, last>>

session == <<messages, input, isLoading, isConnected, models, selectedModel,
             pending, probes>>

----------------------------------------------------------------------------
\* Bounds of the model.

\* The environment issues no accepted submit that would grow the list past this.
MaxMsgs == 4

\* The environment issues no submit once this many chat requests are in flight.
MaxPending == 2

----------------------------------------------------------------------------
\* Texts and optional values.

None == <<>>

Some(v) == <<v>>

IsWhitespace(c) == c = " "

\* The texts typed into the input box: empty, whitespace only (one and two
\* characters), plain, padded on both sides, and with inner whitespace.
TypedTexts ==
    { <<>>, <<" ">>, <<" ", " ">>, <<"a">>, <<" ", "a", " ">>, <<"a", " ", "a">> }

\* JavaScript truthiness of a string: every string but "" is truthy.
Truthy(text) == text # <<>>

\* JavaScript truthiness of a value that may be undefined.
TruthyOpt(opt) == opt # None /\ Truthy(opt[1])

RECURSIVE TrimStart(_)
TrimStart(s) ==
    IF s = <<>> THEN s
    ELSE IF IsWhitespace(Head(s)) THEN TrimStart(Tail(s)) ELSE s

RECURSIVE TrimEnd(_)
TrimEnd(s) ==
    IF s = <<>> THEN s
    ELSE IF IsWhitespace(s[Len(s)]) THEN TrimEnd(SubSeq(s, 1, Len(s) - 1)) ELSE s

\* String.prototype.trim
trim(s) == TrimEnd(TrimStart(s))

----------------------------------------------------------------------------
\* src/route.ts: the chat route handler.

DefaultModel == "llama3:latest"

MessageRequired == <<"Message is required">>

NoResponseReceived == <<"No response received from the model">>

FailedToProcess ==
    <<"Failed to process your request. Make sure Ollama is running and the model is available.">>

ModelNames == {"llama3:latest", "mistral:latest"}

\* Texts the upstream generates: none at all, and one with trailing whitespace.
GeneratedTexts == { <<>>, <<"a", " ">> }

\* What the call to http://localhost:11434/api/generate does: the fetch
\* rejects, or resolves with a non-success status, or resolves with a success
\* status and a JSON body whose response field may be absent.
UpstreamReplies ==
    {[fetch |-> "rejects"]}
    \cup {[fetch |-> "resolves", ok |-> FALSE, status |-> s] : s \in {404, 500}}
    \cup {[fetch |-> "resolves", ok |-> TRUE, status |-> 200, data |-> [response |-> r]] :
            r \in {None} \cup {Some(t) : t \in GeneratedTexts}}

\* The bodies a request to the route can carry: one that line 5 cannot read
\* as a JSON object (request.json() rejects, or the destructuring throws), or
\* a JSON object whose message and model may be absent.
RequestBodies ==
    {[json |-> FALSE]}
    \cup {[json |-> TRUE, message |-> m, model |-> md] :
            m \in {None} \cup {Some(t) : t \in TypedTexts},
            md \in {None} \cup {Some(n) : n \in ModelNames}}

\* The catch block.
ServerError(calls) ==
    [status |-> 500, body |-> [error |-> FailedToProcess], upstreamCalls |-> calls]

\* Mutant: the generated text is trimmed before it is returned.
GeneratedTrimmedOrPlaceholder(data) ==
    IF TruthyOpt(data.response) THEN trim(data.response[1]) ELSE NoResponseReceived

\* data.response || "No response received from the model"
GeneratedOrPlaceholder(data) ==
    IF TruthyOpt(data.response) THEN data.response[1] ELSE NoResponseReceived

\* The request forwarded to the upstream.
GenerateRequest(model, message) ==
    [model |-> model, prompt |-> message, stream |-> FALSE,
     options |-> [temperature |-> "0.7", top_p |-> "0.9", top_k |-> 40]]

\* Mutant: only an absent message is turned down, an empty one is forwarded.
MessageUndefined(message) == message = None

\* if (!message)
MessageMissing(message) == ~TruthyOpt(message)

\* POST: the reply, and the calls made to the upstream while computing it.
POST(request, upstream) ==
    IF ~request.json THEN ServerError(<<>>)
    ELSE
        LET message == request.message
            model == IF request.model = None THEN DefaultModel ELSE request.model[1]
        IN  IF MessageMissing(message)
            THEN [status |-> 400, body |-> [error |-> MessageRequired],
                  upstreamCalls |-> <<>>]
            ELSE
                LET calls == <<GenerateRequest(model, message[1])>>
                IN  IF upstream.fetch = "rejects" THEN ServerError(calls)
                    ELSE IF ~upstream.ok THEN ServerError(calls)
                    ELSE [status |-> 200,
                          body |-> [response |-> GeneratedOrPlaceholder(upstream.data)],
                          upstreamCalls |-> calls]

----------------------------------------------------------------------------
\* src/page.tsx: the chat page.

SUGGESTED_PROMPTS ==
    { <<"Review this code and suggest improvements for better performance and readability">>,
      <<"Help me write comprehensive documentation for this project">>,
      <<"I need help solving a complex technical problem. Can you guide me through it?">>,
      <<"How can I optimize this system for better performance and scalability?">> }

FallbackAdvisory ==
    <<"Sorry, I encountered an error. Please make sure Ollama is running locally.">>

\* What GET /api/health and GET /api/models do: the fetch rejects, or
\* resolves with a non-success status, or resolves with a success status
\* (and, for the models, a body listing them).
HealthReplies ==
    {[fetch |-> "rejects"], [fetch |-> "resolves", ok |-> FALSE],
     [fetch |-> "resolves", ok |-> TRUE]}

ModelsReplies ==
    {[fetch |-> "rejects"], [fetch |-> "resolves", ok |-> FALSE],
     [fetch |-> "resolves", ok |-> TRUE,
      data |-> [models |-> <<"llama3:latest", "mistral:latest">>]]}

Message(content, role) == [content |-> content, role |-> role]

\* What the page renders from the state: which controls exist and are enabled.
InputDisabled == isLoading \/ ~isConnected

SubmitDisabled == isLoading \/ ~Truthy(trim(input)) \/ ~isConnected

PromptsVisible == Len(messages) = 0

ClearVisible == Len(messages) > 0

Init ==
    /\ messages = <<>>
    /\ input = <<>>
    /\ isLoading = FALSE
    /\ isConnected = FALSE
    /\ models = <<>>
    /\ selectedModel = "llama3:latest"
    /\ pending = <<>>
    /\ probes = [health |-> "pending", models |-> "pending"]
    /\ last = [op |-> "mount"]

\* checkOllamaConnection, from its fetch settling on.
checkOllamaConnection(reply) ==
    /\ probes.health = "pending"
    /\ isConnected' = (IF reply.fetch = "rejects" THEN FALSE ELSE reply.ok)
    /\ probes' = [probes EXCEPT !.health = "done"]
    /\ last' = [op |-> "checkOllamaConnection", reply |-> reply]
    /\ UNCHANGED <<messages, input, isLoading, models, selectedModel, pending>>

\* loadModels, from its fetch settling on.
loadModels(reply) ==
    /\ probes.models = "pending"
    /\ models' = (IF reply.fetch = "resolves" /\ reply.ok THEN reply.data.models ELSE models)
    /\ probes' = [probes EXCEPT !.models = "done"]
    /\ last' = [op |-> "loadModels", reply |-> reply]
    /\ UNCHANGED <<messages, input, isLoading, isConnected, selectedModel, pending>>

\* The Select's onValueChange: its items are the loaded models.
setSelectedModel(name) ==
    /\ \E i \in 1..Len(models) : models[i] = name
    /\ selectedModel' = name
    /\ last' = [op |-> "setSelectedModel"]
    /\ UNCHANGED <<messages, input, isLoading, isConnected, models, pending, probes>>

\* The Input's onChange; a disabled input takes no typing.
onChange(value) ==
    /\ ~InputDisabled
    /\ input' = value
    /\ last' = [op |-> "onChange"]
    /\ UNCHANGED <<messages, isLoading, isConnected, models, selectedModel, pending, probes>>

\* messageContent || input.trim()
Content(messageContent) ==
    IF TruthyOpt(messageContent) THEN messageContent[1] ELSE trim(input)

\* Mutant: the guard forgets the loading flag.
RejectsIgnoringLoading(content) == ~Truthy(content)

\* Mutant: the guard also turns a submit down while disconnected.
RejectsWhenDisconnected(content) == ~Truthy(content) \/ isLoading \/ ~isConnected

\* if (!content || isLoading) return
Rejects(content) == ~Truthy(content) \/ isLoading

\* sendMessage, up to its await of fetch("/api/chat").
sendMessage(messageContent) ==
    LET content == Content(messageContent)
        text == IF messageContent = None THEN input ELSE messageContent[1]
        via == IF messageContent = None THEN "input" ELSE "argument"
    IN  IF Rejects(content)
        THEN /\ last' = [op |-> "sendMessage", via |-> via, text |-> text,
                         accepted |-> FALSE]
             /\ UNCHANGED session
        ELSE /\ messages' = Append(messages, Message(content, "user"))
             /\ input' = <<>>
             /\ isLoading' = TRUE
             /\ pending' = Append(pending, [message |-> content, model |-> selectedModel])
             /\ last' = [op |-> "sendMessage", via |-> via, text |-> text,
                         accepted |-> TRUE]
             /\ UNCHANGED <<isConnected, models, selectedModel, probes>>

\* The environment stops submitting at the bounds of the model.
WithinBounds ==
    /\ Len(pending) < MaxPending
    /\ isLoading \/ Len(messages) + 2 <= MaxMsgs

\* The form's onSubmit.  The handler runs however the form is submitted; the
\* send button alone is disabled under SubmitDisabled.
handleSubmit ==
    /\ WithinBounds
    /\ sendMessage(None)

\* A suggested prompt's onClick; the cards are rendered while the list is empty.
clickPrompt(prompt) ==
    /\ WithinBounds
    /\ PromptsVisible
    /\ sendMessage(Some(prompt))

\* Mutant: the reset also empties the input box.
clearChatAndInput ==
    /\ ClearVisible
    /\ messages' = <<>>
    /\ input' = <<>>
    /\ last' = [op |-> "clearChat", size |-> Len(messages)]
    /\ UNCHANGED <<isLoading, isConnected, models, selectedModel, pending, probes>>

\* Mutant: the reset also drops the loading state.
clearChatStopsLoading ==
    /\ ClearVisible
    /\ messages' = <<>>
    /\ isLoading' = FALSE
    /\ last' = [op |-> "clearChat", size |-> Len(messages)]
    /\ UNCHANGED <<input, isConnected, models, selectedModel, pending, probes>>

\* Mutant: the reset aborts the requests in flight.
clearChatCancels ==
    /\ ClearVisible
    /\ messages' = <<>>
    /\ isLoading' = FALSE
    /\ pending' = <<>>
    /\ last' = [op |-> "clearChat", size |-> Len(messages)]
    /\ UNCHANGED <<input, isConnected, models, selectedModel, probes>>

\* The Clear Chat button's onClick; the button is rendered while the list is not empty.
clearChat ==
    /\ ClearVisible
    /\ messages' = <<>>
    /\ last' = [op |-> "clearChat", size |-> Len(messages)]
    /\ UNCHANGED <<input, isLoading, isConnected, models, selectedModel, pending, probes>>

Remove(seq, i) == SubSeq(seq, 1, i - 1) \o SubSeq(seq, i + 1, Len(seq))

\* response.ok of the fetch API.
ResponseOk(reply) == reply.status \in 200..299

\* Mutant: a non-success reply's error text is shown as it came.
AssistantContentRawError(fetch, reply) ==
    IF fetch = "resolves"
    THEN IF reply.status \in 200..299 THEN reply.body.response ELSE reply.body.error
    ELSE FallbackAdvisory

\* The assistant message appended after the await: data.response when the
\* fetch resolved with a success status, the fallback advisory otherwise.
AssistantContent(fetch, reply) ==
    IF fetch = "resolves" /\ ResponseOk(reply) THEN reply.body.response
    ELSE FallbackAdvisory

\* Mutant: loading is not cleared when the request settles.
LoadingStillSet == TRUE

\* What finally sets.
LoadingAfterSettle == FALSE

\* sendMessage, from its fetch("/api/chat") settling on: the fetch rejects, or
\* the route handler ran against the upstream and its reply came back.
settle(i, fetch, upstream) ==
    /\ i \in 1..Len(pending)
    /\ LET request == [json |-> TRUE, message |-> Some(pending[i].message),
                       model |-> Some(pending[i].model)]
           reply == IF fetch = "resolves" THEN POST(request, upstream) ELSE None
       IN  /\ messages' = Append(messages, Message(AssistantContent(fetch, reply), "assistant"))
           /\ last' = [op |-> "settle", request |-> request, fetch |-> fetch,
                       upstream |-> upstream, reply |-> reply]
    /\ isLoading' = LoadingAfterSettle
    /\ pending' = Remove(pending, i)
    /\ UNCHANGED <<input, isConnected, models, selectedModel, probes>>

Settles ==
    \E i \in 1..Len(pending) :
        \/ settle(i, "rejects", None)
        \/ \E upstream \in UpstreamReplies : settle(i, "resolves", upstream)

Next ==
    \/ \E reply \in HealthReplies : checkOllamaConnection(reply)
    \/ \E reply \in ModelsReplies : loadModels(reply)
    \/ \E name \in ModelNames : setSelectedModel(name)
    \/ \E value \in TypedTexts : onChange(value)
    \/ handleSubmit
    \/ \E prompt \in SUGGESTED_PROMPTS : clickPrompt(prompt)
    \/ clearChat
    \/ Settles

Spec == Init /\ [][Next]_vars

\* The page awaits the fetch and runs on when it settles; a fetch that is
\* going to settle is not postponed forever.
FairSpec == Spec /\ WF_vars(Settles)

\* sendMessage called with a text argument, whatever the text.
submit(text) ==
    /\ WithinBounds
    /\ sendMessage(Some(text))

NextCall ==
    \/ Next
    \/ \E text \in TypedTexts : submit(text)

\* The page with sendMessage also called on arbitrary text arguments.
SpecCall == Init /\ [][NextCall]_vars

\* A request to the route from any HTTP client, against any upstream behaviour.
route(request, upstream) ==
    /\ last' = [op |-> "POST", request |-> request, upstream |-> upstream,
                reply |-> POST(request, upstream)]
    /\ UNCHANGED session

NextBridge == \E request \in RequestBodies, upstream \in UpstreamReplies : route(request, upstream)

\* The route handler alone.
SpecBridge == Init /\ [][NextBridge]_vars

----------------------------------------------------------------------------
\* Properties.

\* A step that ran sendMessage / its settlement / clearChat.
Submitted == last'.op = "sendMessage"

Settled == last'.op = "settle"

Cleared == last'.op = "clearChat"

\* Empty or whitespace only.
IsBlank(text) == ~Truthy(trim(text))

\* The text a submit step hands on: the typed input trimmed, or the argument.
SubmittedText == IF last'.via = "input" THEN trim(last'.text) ELSE last'.text

\* The step appended the user message and sent one request for it.
AcceptedAs(text) ==
    /\ messages' = Append(messages, Message(text, "user"))
    /\ isLoading'
    /\ pending' = Append(pending, [message |-> text, model |-> selectedModel])

\* The step settled one request, appended one assistant message with the
\* content, cleared loading and sent nothing.
SettledWith(content) ==
    /\ messages' = Append(messages, Message(content, "assistant"))
    /\ ~isLoading'
    /\ Len(pending') = Len(pending) - 1
    /\ \A j \in 1..Len(pending') : \E k \in 1..Len(pending) : pending'[j] = pending[k]

C2_AtMostOneInFlight ==
    /\ [](Len(pending) <= 1)
    /\ [][(Submitted /\ isLoading) => UNCHANGED session]_vars

\* A submit with non-blank text was issued while a request was in flight and
\* was turned down.
C2_Witness ==
    /\ last.op = "sendMessage"
    /\ ~IsBlank(last.text)
    /\ isLoading
    /\ Len(pending) = 1
    /\ ~last.accepted

\* C3: a submit that sends a request appends exactly one user message with
\* the submitted text at that step; the settlement of a request the route
\* answered with success appends exactly one assistant message with the
\* route's response text and leaves loading false; a settlement only follows
\* the submit that sent the request.
C3_ExchangeAppendsUserThenAssistant ==
    [][ /\ (Submitted /\ Len(pending') > Len(pending)) => AcceptedAs(SubmittedText)
        /\ (Settled /\ last'.fetch = "resolves" /\ last'.reply.status = 200) =>
              /\ SettledWith(last'.reply.body.response)
              /\ \E k \in 1..Len(pending) :
                    /\ pending[k].message = last'.request.message[1]
                    /\ pending[k].model = last'.request.model[1]
      ]_vars

\* A successful exchange has just completed: the list ends with the user
\* message followed by the assistant message, and loading is false.
C3_Witness ==
    /\ last.op = "settle"
    /\ last.fetch = "resolves"
    /\ last.reply.status = 200
    /\ Len(messages) >= 2
    /\ messages[Len(messages) - 1] = Message(last.request.message[1], "user")
    /\ messages[Len(messages)] = Message(last.reply.body.response, "assistant")
    /\ ~isLoading

\* The settlement of a request that failed: the fetch to the route rejected,
\* or the route's call to the upstream rejected or returned a non-success status.
BridgeFailed ==
    \/ last'.fetch = "rejects"
    \/ last'.upstream.fetch = "rejects"
    \/ ~last'.upstream.ok

\* C4: when the upstream returns a non-success status (or is unreachable)
\* the route replies 500 with the fixed error payload; after any bridge
\* failure the page appends exactly one assistant message holding the fixed
\* fallback advisory, sets loading to false and sends no further request.
C4_FailureAppendsFallbackOnce ==
    [][(Settled /\ BridgeFailed) =>
          /\ last'.fetch = "resolves" =>
                /\ last'.reply.status = 500
                /\ last'.reply.body = [error |-> FailedToProcess]
          /\ SettledWith(FallbackAdvisory)
      ]_vars

\* A request whose upstream call returned a non-success status has settled.
C4_Witness ==
    /\ last.op = "settle"
    /\ last.fetch = "resolves"
    /\ last.upstream.fetch = "resolves"
    /\ ~last.upstream.ok
    /\ last.reply.status = 500
    /\ messages[Len(messages)] = Message(FallbackAdvisory, "assistant")
    /\ ~isLoading
    /\ pending = <<>>

UpstreamSucceeded ==
    /\ last.op = "POST"
    /\ last.request.json
    /\ TruthyOpt(last.request.message)
    /\ last.upstream.fetch = "resolves"
    /\ last.upstream.ok

\* C6 as stated: for a non-empty message and an upstream success reply the
\* route returns 200 with the upstream's generated text unchanged, and the
\* placeholder only when the field is absent from the upstream reply.
C6_PlaceholderOnlyWhenAbsent ==
    UpstreamSucceeded =>
        /\ last.reply.status = 200
        /\ last.reply.body =
              [response |-> IF last.upstream.data.response = None
                            THEN NoResponseReceived
                            ELSE last.upstream.data.response[1]]

\* C6 amended: for a non-empty message and an upstream success reply the
\* route returns 200 with the upstream's generated text unchanged when that
\* text is a non-empty string, and with the placeholder when the field is
\* absent or is the empty string.
C6_PlaceholderWhenAbsentOrEmpty ==
    UpstreamSucceeded =>
        /\ last.reply.status = 200
        /\ last.reply.body =
              [response |-> IF last.upstream.data.response \in {None, Some(<<>>)}
                            THEN NoResponseReceived
                            ELSE last.upstream.data.response[1]]

\* The route has returned a generated text that ends in whitespace as it came.
C6_Witness ==
    /\ UpstreamSucceeded
    /\ last.upstream.data.response = Some(<<"a", " ">>)
    /\ last.reply.body.response = <<"a", " ">>

\* C7: clearChat empties the list whatever its size and leaves loading,
\* connected, the selected model and the pending input as they were; a submit
\* with non-blank text while loading is false, after a reset as at any other
\* time, appends the user message and sends a request.
C7_ResetEmptiesListOnly ==
    [][ /\ Cleared =>
              /\ messages' = <<>>
              /\ UNCHANGED <<input, isLoading, isConnected, models, selectedModel, pending>>
        /\ (Submitted /\ ~isLoading /\ ~IsBlank(last'.text)) => AcceptedAs(SubmittedText)
      ]_vars

\* A list of two or more messages has just been reset, with loading false
\* and text waiting in the input.
C7_Witness ==
    /\ last.op = "clearChat"
    /\ last.size >= 2
    /\ messages = <<>>
    /\ ~isLoading
    /\ ~IsBlank(input)

\* C8: once loading is true, only the settlement of the request sets it to
\* false (no reset, submit, model selection or probe does), so it stays true
\* for as long as the request does not settle; a settlement sets it to
\* false, and a request that settles makes loading false eventually.
C8_LoadingUntilSettled ==
    /\ [][(isLoading /\ ~isLoading') => Settled]_vars
    /\ [][Settled => ~isLoading']_vars
    /\ (isLoading ~> ~isLoading)

\* The list was reset while a request was in flight, and loading is still true.
C8_Witness ==
    /\ last.op = "clearChat"
    /\ isLoading
    /\ Len(pending) = 1

\* C9: a reset while loading is true leaves the request in flight and
\* loading true; the settlement that follows appends the assistant message
\* (response or fallback) to the emptied list and sets loading to false, so
\* the list then begins with an assistant message.
C9_ResetDoesNotCancel ==
    [][ /\ (Cleared /\ isLoading) => (pending' = pending /\ isLoading' /\ messages' = <<>>)
        /\ (Settled /\ messages = <<>>) =>
              /\ messages' = << Message(IF last'.fetch = "resolves" /\ last'.reply.status = 200
                                         THEN last'.reply.body.response
                                         ELSE FallbackAdvisory, "assistant") >>
              /\ ~isLoading'
      ]_vars

\* The list holds a single assistant message and no user message.
C9_Witness ==
    /\ last.op = "settle"
    /\ Len(messages) = 1
    /\ messages[1].role = "assistant"
    /\ ~isLoading

\* C10: while connected is false the input and the send button are
\* disabled, yet a click on a suggested prompt while loading is false is
\* accepted: it appends the user message, sets loading and sends a request.
C10_GuardIgnoresConnected ==
    /\ [](~isConnected => (InputDisabled /\ SubmitDisabled))
    /\ [][(Submitted /\ last'.via = "argument" /\ ~isConnected /\ ~isLoading) =>
              AcceptedAs(last'.text)]_vars

\* A suggested prompt was submitted and accepted while disconnected.
C10_Witness ==
    /\ last.op = "sendMessage"
    /\ last.via = "argument"
    /\ last.text \in SUGGESTED_PROMPTS
    /\ last.accepted
    /\ ~isConnected
    /\ isLoading
    /\ Len(pending) = 1
    /\ messages = <<Message(last.text, "user")>>

====
